---- MODULE Spec2Model ----
(***************************************************************************)
(* State-machine model of FileQueue (src/FileQueue.py): a FIFO queue with  *)
(* two in-memory deques (queue_in, queue_out), a list of pickled chunk     *)
(* files (files), a mutex with a condition variable, and a buffer          *)
(* directory holding the chunk files and the 'info' index record.          *)
(*                                                                         *)
(* Items are the naturals 1, 2, 3, ... in the order put() appends them, so *)
(* item k is the k-th item enqueued.  The clock `now` counts milliseconds, *)
(* the unit of the chunk file names (int(time() * 1000)); it advances by   *)
(* Tick only, so any number of operations may happen within one            *)
(* millisecond.                                                            *)
(***************************************************************************)
EXTENDS Integers, Sequences, FiniteSets, TLC

\* ---- bounds -------------------------------------------------------------
NThreads == 2      \* threads sharing the queue
MaxItems == 3      \* items enqueued over the whole run
MaxCap   == 2      \* largest buffer_size tried
MaxTime  == 2      \* last millisecond of the clock
MaxOpens == 2      \* queue objects constructed on the directory
MaxWait  == 1      \* largest positive timeout (milliseconds)

Threads  == 1..NThreads
Caps     == 1..MaxCap

VARIABLES
  buffer_size,   \* self.__buffer_size
  save_data,     \* self.__save_data
  size,          \* self.__size
  files,         \* self.__files : sequence of chunk file names
  queue_in,      \* self.__queue_in
  queue_out,     \* self.__queue_out
  closed,        \* TRUE when queue_in, queue_out and files are None
  alive,         \* FALSE once the object has been finalized (__del__)
  mutex,         \* self.__mutex : 0 when free, else the holding thread
  not_empty,     \* self.__not_empty : threads waiting on the condition, oldest first
  dirExists,     \* the buffer directory exists
  disk,          \* chunk files in the directory: file name -> pickled deque
  info,          \* the 'info' file: [present, size, files]
  now,           \* _time() in milliseconds
  pc,            \* per thread: "idle", "locked", "waiting", "reacquire", "recheck"
  call,          \* per thread: the operation in progress or last finished
  end,           \* per thread: deadline `end` of a timed get
  result,        \* per thread: outcome of the last finished operation
  nput,          \* history: number of items enqueued
  fed,           \* history, per thread: a put completed while its get was waiting
                 \* (and, for a timed get, before its deadline)
  returned,      \* history: items returned by get, in order
  opens,         \* history: number of objects constructed so far
  prev,          \* history: how the directory was left for the current object
  ended,         \* history: how the current object ended ("open" while in use)
  sessPuts,      \* history: a put was called on the current object
  sessGets       \* history: a get was called on the current object

vars == <<buffer_size, save_data, size, files, queue_in, queue_out, closed,
          alive, mutex, not_empty, dirExists, disk, info, now, pc, call, end,
          result, nput, fed, returned, opens, prev, ended, sessPuts, sessGets>>

qvars    == <<size, files, queue_in, queue_out>>
objvars  == <<buffer_size, save_data, closed, alive>>
dirvars  == <<dirExists, disk, info>>
histvars == <<opens, prev, ended>>

\* ---- calls --------------------------------------------------------------
PutCall      == [op |-> "put", block |-> FALSE, timeout |-> 0]
GetCall(b, w) == [op |-> "get", block |-> b, timeout |-> w]
\* get_nowait() is get(block=False)
get_nowait   == GetCall(FALSE, 0)
GetCalls     == {get_nowait} \cup {GetCall(TRUE, w) : w \in 0..MaxWait}
Calls        == {PutCall} \cup GetCalls

NoInfo == [present |-> FALSE, size |-> 0, files |-> <<>>]
NoDisk == [f \in {} |-> <<>>]

\* ---- helpers ------------------------------------------------------------
\* __save_to_file(queue, tail) at millisecond t: the file name is the clock,
\* the name goes to the tail or the head of files, and the file is written
\* (an existing file of the same name is overwritten by open(..., 'wb')).
save_to_file(st, queue, tail, t) ==
  [files |-> IF tail THEN Append(st.files, t) ELSE <<t>> \o st.files,
   disk  |-> [f \in (DOMAIN st.disk) \cup {t} |->
                IF f = t THEN queue ELSE st.disk[f]]]

\* __get_from_file(filename): open fails when the file is missing, else the
\* pickled deque is returned and the file removed.
get_from_file(dk, filename) ==
  IF filename \in DOMAIN dk
    THEN [ok |-> TRUE, obj |-> dk[filename],
          disk |-> [f \in (DOMAIN dk) \ {filename} |-> dk[f]]]
    ELSE [ok |-> FALSE, obj |-> <<>>, disk |-> dk]

\* Condition.notify(): wake the oldest waiter, if any.
notify(w)    == IF w = <<>> THEN w ELSE Tail(w)
notifyPc(p, w) == IF w = <<>> THEN p ELSE [p EXCEPT ![Head(w)] = "reacquire"]

RemoveFrom(s, x) == SelectSeq(s, LAMBDA y : y # x)

\* Items held in the chunk files named by a file list, in list order.
RECURSIVE ChunkItems(_, _)
ChunkItems(fs, dk) ==
  IF fs = <<>> THEN <<>>
  ELSE (IF Head(fs) \in DOMAIN dk THEN dk[Head(fs)] ELSE <<>>)
       \o ChunkItems(Tail(fs), dk)

\* The abstract content of the queue: outgoing ++ chunks ++ incoming.
Contents == queue_out \o ChunkItems(files, disk) \o queue_in

Range(s) == {s[i] : i \in 1..Len(s)}

\* ---- initial state: FileQueue(buffer_dir, buffer_size, save_data) on a --
\* ---- directory that does not exist yet ---------------------------------
Init ==
  /\ buffer_size \in Caps
  /\ save_data \in BOOLEAN
  /\ size = 0
  /\ files = <<>>
  /\ queue_in = <<>>
  /\ queue_out = <<>>
  /\ closed = FALSE
  /\ alive = TRUE
  /\ mutex = 0
  /\ not_empty = <<>>
  /\ dirExists = TRUE
  /\ disk = NoDisk
  /\ info = NoInfo
  /\ now = 0
  /\ pc = [t \in Threads |-> "idle"]
  /\ call = [t \in Threads |-> PutCall]
  /\ end = [t \in Threads |-> 0]
  /\ result = [t \in Threads |-> "none"]
  /\ nput = 0
  /\ fed = [t \in Threads |-> FALSE]
  /\ returned = <<>>
  /\ opens = 1
  /\ prev = "none"
  /\ ended = "open"
  /\ sessPuts = FALSE
  /\ sessGets = FALSE

\* ---- thread steps -------------------------------------------------------
\* A thread calls put(item) or get(block, timeout) on the queue object and
\* acquires the mutex (lines 63 and 88); a caller that finds the mutex taken
\* blocks until it is free.
Call(t, c) ==
  /\ alive
  /\ pc[t] = "idle"
  /\ mutex = 0
  /\ c.op = "put" => nput < MaxItems
  /\ c.timeout > 0 => now + c.timeout <= MaxTime
  /\ mutex' = t
  /\ pc' = [pc EXCEPT ![t] = "locked"]
  /\ call' = [call EXCEPT ![t] = c]
  /\ result' = [result EXCEPT ![t] = "none"]
  /\ end' = [end EXCEPT ![t] = 0]
  /\ fed' = [fed EXCEPT ![t] = FALSE]
  /\ sessPuts' = (sessPuts \/ c.op = "put")
  /\ sessGets' = (sessGets \/ c.op = "get")
  /\ UNCHANGED <<qvars, objvars, dirvars, histvars, not_empty, now, nput,
                 returned>>

\* Thread u is waiting in get() and, if its get is timed, its deadline has
\* not been reached.
InWindow(u) ==
  /\ pc[u] = "waiting"
  /\ call[u].timeout > 0 => now < end[u]

\* put(): the critical section and the release in `finally`.
put(t) ==
  /\ pc[t] = "locked"
  /\ call[t].op = "put"
  /\ mutex' = 0
  /\ IF closed
       THEN \* None.append raises AttributeError
            /\ result' = [result EXCEPT ![t] = "AttributeError"]
            /\ pc' = [pc EXCEPT ![t] = "idle"]
            /\ UNCHANGED <<qvars, dirvars, not_empty, nput, fed>>
       ELSE LET item == nput + 1
                qin  == Append(queue_in, item)
                st   == save_to_file([files |-> files, disk |-> disk], qin, TRUE, now)
            IN /\ IF Len(qin) >= buffer_size
                    THEN IF files = <<>> /\ queue_out = <<>>
                           THEN /\ queue_in' = queue_out
                                /\ queue_out' = qin
                                /\ UNCHANGED <<files, disk>>
                           ELSE /\ files' = st.files
                                /\ disk' = st.disk
                                /\ queue_in' = <<>>
                                /\ UNCHANGED queue_out
                    ELSE /\ queue_in' = qin
                         /\ UNCHANGED <<queue_out, files, disk>>
               /\ size' = size + 1
               /\ not_empty' = notify(not_empty)
               /\ pc' = [notifyPc(pc, not_empty) EXCEPT ![t] = "idle"]
               /\ result' = [result EXCEPT ![t] = "ok"]
               /\ nput' = item
               /\ fed' = [u \in Threads |-> fed[u] \/ InWindow(u)]
               /\ UNCHANGED <<dirExists, info>>
  /\ UNCHANGED <<objvars, histvars, now, call, end, returned, sessPuts, sessGets>>


\* Lines 111-112 and the release in `finally`, with queue_in = qin and
\* queue_out = qout at that point: size is decremented, then popleft()
\* raises IndexError on an empty deque.
pop(t, qin, qout) ==
  /\ size' = size - 1
  /\ queue_in' = qin
  /\ mutex' = 0
  /\ pc' = [pc EXCEPT ![t] = "idle"]
  /\ IF qout # <<>>
       THEN /\ queue_out' = Tail(qout)
            /\ returned' = Append(returned, Head(qout))
            /\ result' = [result EXCEPT ![t] = "ok"]
       ELSE /\ queue_out' = qout
            /\ result' = [result EXCEPT ![t] = "IndexError"]
            /\ UNCHANGED returned

\* raise with line 111 moved before the test: size is decremented first.
raiseDecremented(t, exc) ==
  /\ mutex' = 0
  /\ pc' = [pc EXCEPT ![t] = "idle"]
  /\ result' = [result EXCEPT ![t] = exc]
  /\ size' = size - 1
  /\ UNCHANGED <<queue_in, queue_out, returned>>

\* An exception leaves get(): nothing but the mutex changes.
raise(t, exc) ==
  /\ mutex' = 0
  /\ pc' = [pc EXCEPT ![t] = "idle"]
  /\ result' = [result EXCEPT ![t] = exc]
  /\ UNCHANGED <<size, queue_in, queue_out, returned>>

\* self.__not_empty.wait(...): release the mutex and join the waiters.
wait(t) ==
  /\ mutex' = 0
  /\ not_empty' = Append(not_empty, t)
  /\ pc' = [pc EXCEPT ![t] = "waiting"]
  /\ UNCHANGED <<size, queue_in, queue_out, returned, result>>

\* get(block, timeout): lines 90-112 up to the first wait, a return or a
\* raise.  On a closed queue queue_out, files and queue_in are None, which
\* are all falsy.
get(t) ==
  /\ pc[t] = "locked"
  /\ call[t].op = "get"
  /\ IF ~closed /\ queue_out # <<>>
       THEN /\ pop(t, queue_in, queue_out)
            /\ UNCHANGED <<files, disk, not_empty, end>>
       ELSE IF ~closed /\ files # <<>>
         THEN LET r == get_from_file(disk, Head(files))
              IN /\ files' = Tail(files)
                 /\ disk' = r.disk
                 /\ IF r.ok THEN pop(t, queue_in, r.obj) ELSE raise(t, "IOError")
                 /\ UNCHANGED <<not_empty, end>>
       ELSE IF ~closed /\ queue_in # <<>>
         THEN /\ pop(t, queue_out, queue_in)
              /\ UNCHANGED <<files, disk, not_empty, end>>
       ELSE IF call[t].block
         THEN \* the first test of `while not self.__queue_in` succeeds, and
              \* remaining = timeout > 0 at the first pass of the timed loop
              /\ end' = [end EXCEPT ![t] =
                           IF call[t].timeout > 0 THEN now + call[t].timeout ELSE 0]
              /\ wait(t)
              /\ UNCHANGED <<files, disk>>
       ELSE /\ raise(t, "Empty")
            /\ UNCHANGED <<files, disk, not_empty, end>>
  /\ UNCHANGED <<objvars, histvars, dirExists, info, now, call, nput, fed,
                 sessPuts, sessGets>>

\* A put's notify() has woken the waiter, or its timed wait has run out:
\* wait() re-acquires the mutex before it returns.
Reacquire(t) ==
  /\ pc[t] = "reacquire"
  /\ mutex = 0
  /\ mutex' = t
  /\ pc' = [pc EXCEPT ![t] = "recheck"]
  /\ UNCHANGED <<qvars, objvars, dirvars, histvars, not_empty, now, call, end,
                 result, nput, fed, returned, sessPuts, sessGets>>

\* wait(remaining) returns without a notify once `remaining` has elapsed.
Timeout(t) ==
  /\ pc[t] = "waiting"
  /\ call[t].timeout > 0
  /\ now >= end[t]
  /\ not_empty' = RemoveFrom(not_empty, t)
  /\ pc' = [pc EXCEPT ![t] = "reacquire"]
  /\ UNCHANGED <<qvars, objvars, dirvars, histvars, mutex, now, call, end,
                 result, nput, fed, returned, sessPuts, sessGets>>

\* After wait() returns: the loop test `while not self.__queue_in` (lines
\* 100-104 and 106-107), then the swap of line 108 and lines 111-112.
recheck(t) ==
  /\ pc[t] = "recheck"
  /\ IF ~closed /\ queue_in # <<>>
       THEN /\ pop(t, queue_out, queue_in)
            /\ UNCHANGED not_empty
       ELSE IF call[t].timeout > 0 /\ end[t] - now <= 0
         THEN /\ raise(t, "Empty")
              /\ UNCHANGED not_empty
         ELSE wait(t)
  /\ UNCHANGED <<files, objvars, dirvars, histvars, now, call, end, nput, fed,
                 sessPuts, sessGets>>

\* One millisecond passes.
Tick ==
  /\ now < MaxTime
  /\ now' = now + 1
  /\ UNCHANGED <<qvars, objvars, dirvars, histvars, mutex, not_empty, pc, call,
                 end, result, nput, fed, returned, sessPuts, sessGets>>

\* ---- life cycle ---------------------------------------------------------
AllIdle == \A t \in Threads : pc[t] = "idle"

\* rmdir(self.__buffer_dir): os.listdir raises when the directory is gone.
rmdir ==
  IF dirExists
    THEN [raised |-> FALSE, dirExists |-> FALSE, disk |-> NoDisk, info |-> NoInfo]
    ELSE [raised |-> TRUE, dirExists |-> dirExists, disk |-> disk, info |-> info]

\* closeDir with the test of self.__save_data left out of line 176.
closeDirUnconditional(t2) ==
  IF ~closed
    THEN LET s0 == [files |-> files, disk |-> disk]
             s1 == IF queue_in # <<>>
                     THEN save_to_file(s0, queue_in, TRUE, now) ELSE s0
             s2 == IF queue_out # <<>>
                     THEN save_to_file(s1, queue_out, FALSE, t2) ELSE s1
         IN IF s2.files # <<>>
              THEN [raised |-> FALSE, dirExists |-> dirExists, disk |-> s2.disk,
                    info |-> [present |-> TRUE, size |-> size, files |-> s2.files]]
              ELSE rmdir
    ELSE rmdir

\* Lines 176-187 of close(): what becomes of the directory.  The second
\* __save_to_file reads the clock again, at t2 >= now.
closeDir(t2) ==
  IF save_data /\ ~closed
    THEN LET s0 == [files |-> files, disk |-> disk]
             s1 == IF queue_in # <<>>
                     THEN save_to_file(s0, queue_in, TRUE, now) ELSE s0
             s2 == IF queue_out # <<>>
                     THEN save_to_file(s1, queue_out, FALSE, t2) ELSE s1
         IN IF s2.files # <<>>
              THEN [raised |-> FALSE, dirExists |-> dirExists, disk |-> s2.disk,
                    info |-> [present |-> TRUE, size |-> size, files |-> s2.files]]
              ELSE rmdir
    ELSE rmdir

\* How a close() leaves the directory, for the history.
closeKind(d) ==
  IF ~save_data THEN "discard"
  ELSE IF ~d.info.present THEN "removed"
  ELSE IF prev = "none" /\ sessPuts /\ ~sessGets THEN "persist_pure"
  ELSE "persist"

\* close(): lines 176-190.  Lines 188-190 are not reached when rmdir raises.
close(t2) ==
  LET d == closeDir(t2)
  IN /\ dirExists' = d.dirExists
     /\ disk' = d.disk
     /\ info' = d.info
     /\ now' = t2
     /\ ended' = IF closed THEN ended ELSE closeKind(d)
     /\ IF d.raised
          THEN UNCHANGED <<closed, queue_in, queue_out, files>>
          ELSE /\ closed' = TRUE
               /\ queue_in' = <<>>
               /\ queue_out' = <<>>
               /\ files' = <<>>
     /\ UNCHANGED <<size, buffer_size, save_data, mutex, not_empty, pc, call,
                    end, result, nput, fed, returned, opens, prev, sessPuts,
                    sessGets>>

ClockReads == {t2 \in now..(now + 1) : t2 <= MaxTime}

\* The owner calls close() once, when no operation is in progress.
Close ==
  /\ alive
  /\ ~closed
  /\ AllIdle
  /\ \E t2 \in ClockReads : close(t2)
  /\ UNCHANGED alive

\* __del__: the finalizer calls close(), whether or not the owner did.
Del ==
  /\ alive
  /\ AllIdle
  /\ \E t2 \in ClockReads : close(t2)
  /\ alive' = FALSE

\* __init__ on the same buffer_dir, after the previous object was closed.
Open ==
  /\ closed
  /\ AllIdle
  /\ opens < MaxOpens
  /\ opens' = opens + 1
  /\ buffer_size' \in Caps
  /\ save_data' \in BOOLEAN
  /\ dirExists' = TRUE
  /\ size' = IF info.present THEN info.size ELSE 0
  /\ files' = IF info.present THEN info.files ELSE <<>>
  /\ queue_in' = <<>>
  /\ queue_out' = <<>>
  /\ closed' = FALSE
  /\ alive' = TRUE
  /\ mutex' = 0
  /\ not_empty' = <<>>
  /\ call' = [t \in Threads |-> PutCall]
  /\ end' = [t \in Threads |-> 0]
  /\ result' = [t \in Threads |-> "none"]
  /\ prev' = IF ~alive /\ ended \in {"persist", "persist_pure"}
               THEN "finalized" ELSE ended
  /\ ended' = "open"
  /\ sessPuts' = FALSE
  /\ sessGets' = FALSE
  /\ fed' = [t \in Threads |-> FALSE]
  /\ UNCHANGED <<disk, info, now, pc, nput, returned>>

\* ---- specifications -----------------------------------------------------
\* Threads sharing one open queue: any thread may put and get.
Next ==
  \/ \E t \in Threads, c \in Calls : Call(t, c)
  \/ \E t \in Threads : put(t)
  \/ \E t \in Threads : get(t)
  \/ \E t \in Threads : Reacquire(t)
  \/ \E t \in Threads : Timeout(t)
  \/ \E t \in Threads : recheck(t)
  \/ Tick

Spec == Init /\ [][Next]_vars

\* One producer thread and one consumer thread on one open queue; the
\* consumer uses blocking get, with or without a timeout.
Producer == 1
Consumer == 2
BlockingCalls == {GetCall(TRUE, w) : w \in 0..MaxWait}

NextPC ==
  \/ Call(Producer, PutCall)
  \/ \E c \in BlockingCalls : Call(Consumer, c)
  \/ put(Producer)
  \/ get(Consumer)
  \/ Reacquire(Consumer)
  \/ Timeout(Consumer)
  \/ recheck(Consumer)
  \/ Tick

SpecPC == Init /\ [][NextPC]_vars

\* The same under the scheduler's guarantees: a thread that can take a step
\* eventually does, and time passes.  Calls are the environment's choice.
FairPC ==
  /\ SpecPC
  /\ WF_vars(put(Producer))
  /\ WF_vars(get(Consumer))
  /\ WF_vars(Reacquire(Consumer))
  /\ WF_vars(Timeout(Consumer))
  /\ WF_vars(recheck(Consumer))
  /\ WF_vars(Tick)

\* One owner thread using the queue sequentially through its life cycle:
\* operations, close(), the finalizer, and a new object on the directory.
Owner == 1

NextLife ==
  \/ \E c \in Calls : Call(Owner, c)
  \/ put(Owner)
  \/ get(Owner)
  \/ Reacquire(Owner)
  \/ Timeout(Owner)
  \/ recheck(Owner)
  \/ Tick
  \/ Close
  \/ Del
  \/ Open

SpecLife == Init /\ [][NextLife]_vars

\* close() called by yet another thread at any moment: it takes no lock
\* (lines 161-190), so it does not wait for a put or get in progress.
CloseAnytime ==
  /\ alive
  /\ ~closed
  /\ \E t2 \in ClockReads : close(t2)
  /\ UNCHANGED alive

NextRace ==
  \/ Next
  \/ CloseAnytime

SpecRace == Init /\ [][NextRace]_vars

\* ---- properties ---------------------------------------------------------
\* The first n items in enqueue order.
Iota(n) == [i \in 1..n |-> i]

NoOp(t) == pc[t] = "idle"

Failures == {"Empty", "IOError", "IndexError", "AttributeError"}

\* C1: on the first, open queue used by one thread (calls never overlap), the
\* items returned so far followed by outgoing ++ chunks ++ incoming are the
\* items enqueued, in enqueue order: the queue is an abstract FIFO queue and
\* the returned items are a prefix of the enqueued ones.
C1_SequentialFifo ==
  (opens = 1 /\ ~closed /\ NoOp(Owner)) =>
     /\ returned \o Contents = Iota(nput)
     /\ result[Owner] \in {"none", "ok", "Empty"}

\* C2: with one producer and one consumer that uses blocking get, the
\* consumer receives items in enqueue order, and never receives an item while
\* the queue still holds one that was enqueued earlier.
C2_ConsumerSeesEnqueueOrder ==
  /\ \A i, j \in 1..Len(returned) : i < j => returned[i] < returned[j]
  /\ \A i \in 1..Len(returned) : \A k \in 1..Len(Contents) :
        returned[i] < Contents[k]

\* C3: under fair scheduling, a blocking get without timeout that is waiting
\* when a put completes eventually returns an item (there is no other
\* consumer to take it).
C3_WaitingGetReturns ==
  (pc[Consumer] = "waiting" /\ call[Consumer].timeout = 0 /\ fed[Consumer])
    ~> (pc[Consumer] = "idle" /\ result[Consumer] = "ok")

\* C4: a timed get that ends with Empty had no put complete between the
\* start of its wait and its deadline.
C4_TimedEmptyOnlyIfNothingArrived ==
  (NoOp(Consumer) /\ call[Consumer].timeout > 0 /\ result[Consumer] = "Empty")
    => ~fed[Consumer]

\* C5: with any interleaving of the threads' puts and gets, every item
\* enqueued so far is, exactly once, either among the items returned or in
\* queue_out, a chunk of files, or queue_in.
C5_NoLossNoDuplication ==
  LET all == returned \o Contents
  IN /\ Len(all) = nput
     /\ \A i \in 1..nput : \E k \in 1..Len(all) : all[k] = i

\* C6: a queue reopened on a directory persisted by close() of a queue that
\* was only ever put to, and only read since, holds size = N minus the items
\* returned, returns the items in enqueue order, and no get fails (or waits)
\* before all N are returned.
C6_RoundTrip ==
  (prev = "persist_pure" /\ ~closed /\ ~sessPuts) =>
     /\ size = nput - Len(returned)
     /\ returned = Iota(Len(returned))
     /\ (NoOp(Owner) /\ result[Owner] \in Failures) => Len(returned) = nput
     /\ ~NoOp(Owner) /\ pc[Owner] # "locked" => Len(returned) = nput

\* C7: after close() (or the finalizer) of a queue with save_data = False no
\* chunk file and no index record is left, and a queue opened on that
\* directory has size 0 and no chunks, and its get_nowait raises Empty.
C7_DiscardOnClose ==
  /\ (closed /\ ~save_data) => (disk = NoDisk /\ ~info.present)
  /\ (prev = "discard" /\ ~closed /\ ~sessPuts) =>
        /\ size = 0
        /\ files = <<>>
        /\ (NoOp(Owner) /\ call[Owner] = get_nowait) => result[Owner] = "Empty"

\* a queue that held items was discarded, reopened, and get_nowait failed
C7_Witness ==
  /\ prev = "discard"
  /\ ~closed
  /\ nput > Len(returned)
  /\ NoOp(Owner)
  /\ call[Owner] = get_nowait
  /\ result[Owner] = "Empty"

\* C8: a get_nowait on an open queue leaves get() without waiting; it raises
\* Empty exactly when queue_out, files and queue_in are all empty as it holds
\* the mutex, and otherwise returns an item.
C8_NoWaitGet ==
  [][\A t \in Threads :
       (pc[t] = "locked" /\ call[t] = get_nowait /\ ~closed /\ pc'[t] # "locked")
         => /\ pc'[t] = "idle"
            /\ result'[t] = "Empty" <=>
                 (queue_out = <<>> /\ files = <<>> /\ queue_in = <<>>)
            /\ result'[t] # "Empty" =>
                 (result'[t] = "ok" /\ Len(returned') = Len(returned) + 1)]_vars

\* C9: on a closed queue no operation waits on the condition, none succeeds,
\* and size does not change.
C9_FailFastAfterClose ==
  [][(closed /\ closed') =>
       /\ size' = size
       /\ \A t \in Threads :
            /\ pc'[t] # "waiting"
            /\ (pc[t] = "locked" /\ pc'[t] = "idle") => result'[t] \in Failures]_vars

\* C10: once the finalizer has run on a queue whose close() persisted its
\* data, the index record and the chunk files it names are still there.
C10_FinalizerKeepsPersistedData ==
  (~alive /\ ended \in {"persist", "persist_pure"}) =>
     /\ info.present
     /\ Range(info.files) \subseteq DOMAIN disk

\* No thread is inside a critical section of an open queue.
Quiet == ~closed /\ mutex = 0

\* C11: on an open queue with no thread inside put or get, size is
\* len(queue_in) + len(queue_out) + the lengths of the chunks named by files.
C11_SizeIsItemCount ==
  Quiet => size = Len(queue_in) + Len(queue_out) + Len(ChunkItems(files, disk))

Last(s) == s[Len(s)]

\* C12: close() of an open queue with save_data = True and chunk list L
\* leaves the list [chunk of queue_out] ++ L ++ [chunk of queue_in] (each new
\* chunk only for a non-empty buffer, and holding that buffer's items); the
\* info record (size, list) is written iff the list is non-empty, and
\* otherwise the directory is removed.
C12_CloseFlushesBothEnds ==
  [][(~closed /\ closed' /\ save_data) =>
       LET nout == IF queue_out # <<>> THEN 1 ELSE 0
           nin  == IF queue_in # <<>> THEN 1 ELSE 0
           L    == info'.files
       IN IF nout + Len(files) + nin = 0
            THEN ~info'.present /\ ~dirExists' /\ disk' = NoDisk
            ELSE /\ info'.present
                 /\ info'.size = size
                 /\ Len(L) = nout + Len(files) + nin
                 /\ SubSeq(L, nout + 1, nout + Len(files)) = files
                 /\ Range(L) \subseteq DOMAIN disk'
                 /\ nout = 1 => disk'[Head(L)] = queue_out
                 /\ nin = 1 => disk'[Last(L)] = queue_in]_vars

\* A get returned the head of queue_in: the buffers were exchanged by it.
GetExchange ==
  /\ ~closed
  /\ queue_in # <<>>
  /\ Len(returned') = Len(returned) + 1
  /\ Last(returned') = Head(queue_in)

\* A put moved queue_in, with the new item, to queue_out.
PutExchange ==
  /\ ~closed
  /\ nput' = nput + 1
  /\ queue_out' = Append(queue_in, nput')

\* C13: the buffers are exchanged, by put or by get (woken or not), only when
\* queue_out and files are both empty.
C13_ExchangeOnlyWhenDrained ==
  [][(GetExchange \/ PutExchange) => (queue_out = <<>> /\ files = <<>>)]_vars

\* C14: a put on an open queue returns normally, appends the item after the
\* items of queue_in, adds one to size and notifies one waiter.  When the
\* append fills queue_in, the buffers are exchanged and no chunk is written if
\* files and queue_out are both empty; otherwise exactly one new chunk file is
\* written, holding queue_in's items, its name is appended to files, the
\* other chunks and queue_out are untouched, and queue_in is reset.  Below
\* the capacity only queue_in and size change.
C14_PutEffect ==
  [][\A t \in Threads :
       (pc[t] = "locked" /\ call[t].op = "put" /\ ~closed /\ pc'[t] # "locked")
         => LET qin == Append(queue_in, nput')
            IN /\ pc'[t] = "idle"
               /\ result'[t] = "ok"
               /\ nput' = nput + 1
               /\ size' = size + 1
               /\ not_empty' = notify(not_empty)
               /\ mutex' = 0
               /\ IF Len(qin) < buffer_size
                    THEN queue_in' = qin /\ UNCHANGED <<queue_out, files, disk>>
                    ELSE IF files = <<>> /\ queue_out = <<>>
                      THEN /\ queue_out' = qin
                           /\ queue_in' = <<>>
                           /\ UNCHANGED <<files, disk>>
                      ELSE /\ queue_in' = <<>>
                           /\ UNCHANGED queue_out
                           /\ \E id \in (DOMAIN disk') \ (DOMAIN disk) :
                                /\ files' = Append(files, id)
                                /\ DOMAIN disk' = (DOMAIN disk) \cup {id}
                                /\ disk'[id] = qin
                                /\ \A f \in DOMAIN disk : disk'[f] = disk[f]]_vars

NoDup(s) == \A i, j \in 1..Len(s) : s[i] = s[j] => i = j

\* C15: every chunk name generated by a spill or by close() differs from the
\* names already listed, so the chunk list never holds the same name twice,
\* neither in memory while the queue is open nor in the info record written
\* by close().
C15_ChunkIdsDistinct ==
  /\ ~closed => NoDup(files)
  /\ (closed /\ info.present) => NoDup(info.files)

\* C16: while a thread holds the mutex inside put or get, the fields size,
\* queue_in, queue_out and files are changed by that thread only: close()
\* mutates them under the mutex too, so it cannot run in between.
C16_MutationsUnderMutex ==
  [][(mutex # 0 /\ (qvars' # qvars \/ closed' # closed))
       => pc'[mutex] # pc[mutex]]_vars

\* C17: on an open queue with no operation in progress, the chunk files in
\* the directory are exactly the files named by the chunk list.
C17_FilesMatchChunkList ==
  Quiet => DOMAIN disk = Range(files)

\* C18: a step of get() that raises Empty, or that goes to wait, leaves size,
\* queue_in, queue_out, files and the chunk files as they were and releases
\* the mutex.
C18_EmptyChangesNothing ==
  [][\A t \in Threads :
       (/\ call[t].op = "get"
        /\ pc[t] \in {"locked", "recheck"}
        /\ pc'[t] # pc[t]
        /\ result'[t] \in {"none", "Empty"})
         => /\ UNCHANGED <<size, queue_in, queue_out, files, disk>>
            /\ mutex' = 0
            /\ result'[t] = "Empty" <=> pc'[t] = "idle"]_vars

\* A timed get has failed with Empty after its wait, and a put made after it
\* has succeeded.
C18_Witness ==
  \E t, u \in Threads :
    /\ t # u
    /\ NoOp(t) /\ call[t].op = "get" /\ call[t].timeout > 0
    /\ result[t] = "Empty"
    /\ NoOp(u) /\ call[u].op = "put" /\ result[u] = "ok"
    /\ size = 1 /\ Len(Contents) = 1 /\ returned = <<>>

\* C19: on an open queue with no operation in progress, queue_in holds fewer
\* than buffer_size items.
C19_IncomingBelowCapacity ==
  Quiet => Len(queue_in) < buffer_size

\* C20: on a queue reopened from an info record, no item put after the reopen
\* is returned while an item put before it is still held.  (The first
\* session only put items, so the restored items are 1..info.size.)
C20_RestoredItemsFirst ==
  (prev = "persist_pure" /\ ~closed /\ info.present) =>
     \A i \in 1..Len(returned) : \A k \in 1..Len(Contents) :
        ~(returned[i] > info.size /\ Contents[k] <= info.size)

====
